---- MODULE Spec2Model ----
(***************************************************************************)
(* A model of servo_basic.py: a CircuitPython program that drives one      *)
(* servo (servo_a) either to fixed angles (basic_operations) or through a  *)
(* stepped sweep (servo_sweep, sweep_operations).                          *)
(*                                                                         *)
(* Numbers.  Python passes ints and floats to servo_sweep.  A number is    *)
(* modelled as a record [float, v] where v is the value in tenths, so that *)
(* 90.5 is [float |-> TRUE, v |-> 905] and the int 90 is                   *)
(* [float |-> FALSE, v |-> 900].  Times are integers in milliseconds       *)
(* (0.015 s = 15).  Angles written to servo_a.angle are whole degrees.     *)
(*                                                                         *)
(* Control.  pc is the position of the single thread of control:           *)
(* [fn, label, i], fn the function being executed, label the statement,    *)
(* i the index of the statement group.  stack holds the return addresses.  *)
(*                                                                         *)
(* Observation.  log is the sequence of externally visible events (print,  *)
(* write of servo_a.angle, sleep) of the function activation in progress;  *)
(* it is cleared on every function entry and on every return.              *)
(***************************************************************************)
EXTENDS Integers, Sequences, FiniteSets

VARIABLES DEBUG, servo_angle, pc, stack, args, loop, log, loops

vars == <<DEBUG, servo_angle, pc, stack, args, loop, log, loops>>

(***************************************************************************)
(* Bounds                                                                  *)
(***************************************************************************)
\* loops counts the iterations of main's while loop and saturates here.
MaxLoops == 6

(***************************************************************************)
(* Numbers                                                                 *)
(***************************************************************************)
Tenths(n) == n * 10

Degrees(v) == v \div 10

PyInt(n) == [float |-> FALSE, v |-> Tenths(n)]

PyFloat(tenths) == [float |-> TRUE, v |-> tenths]

\* Python's int(x): truncation toward zero.
int(x) == IF x.v >= 0 THEN Tenths(x.v \div 10) ELSE -Tenths((-x.v) \div 10)

abs(v) == IF v < 0 THEN -v ELSE v

(***************************************************************************)
(* Program constants                                                       *)
(***************************************************************************)
MaxAngle == 180

BasicSleepTime == 5000

OpsSleepTime == 5000

DefaultStepAngle == PyInt(1)

DefaultStepTime == 15

\* The angles basic_operations commands, in order.
BasicAngles == <<90, 0, 90, 180>>

\* The four calls of sweep_operations, in order.
SweepCalls ==
    << [start_angle |-> PyInt(0), stop_angle |-> PyInt(180),
        step_angle |-> DefaultStepAngle, step_time |-> DefaultStepTime],
       [start_angle |-> PyInt(180), stop_angle |-> PyInt(0),
        step_angle |-> DefaultStepAngle, step_time |-> DefaultStepTime],
       [start_angle |-> PyInt(45), stop_angle |-> PyInt(135),
        step_angle |-> PyInt(15), step_time |-> 1000],
       [start_angle |-> PyInt(180), stop_angle |-> PyInt(0),
        step_angle |-> PyInt(45), step_time |-> 1000] >>

\* Mutant: the loop body with sweep_operations enabled as well.
MainCallsWithSweep == <<"basic_operations", "sweep_operations">>

\* The calls in the body of main's while loop (sweep_operations is commented out).
MainCalls == <<"basic_operations">>

(***************************************************************************)
(* Inputs of the calls an importing program makes to servo_sweep           *)
(***************************************************************************)
AngleInputs ==
    {PyInt(-1), PyInt(0), PyInt(10), PyInt(45), PyInt(135), PyInt(180),
     PyInt(181), PyFloat(905), PyFloat(450)}

StepInputs ==
    {PyInt(-1), PyInt(0), PyInt(1), PyInt(3), PyInt(15), PyInt(20), PyInt(45),
     PyInt(180), PyFloat(15), PyFloat(150)}

TimeInputs == {-100, 0, DefaultStepTime, 1000}

(***************************************************************************)
(* Control positions                                                       *)
(***************************************************************************)
At(f, l, k) == [fn |-> f, label |-> l, i |-> k]

\* The prompt of a program that imported the module without running main.
Idle == At("import", "prompt", 0)

MainStart == At("main", "call", 1)

Entry(f) ==
    IF f = "basic_operations" THEN At("basic_operations", "set", 1)
    ELSE At("sweep_operations", "call", 1)

NoArgs ==
    [start_angle |-> PyInt(0), stop_angle |-> PyInt(0),
     step_angle |-> PyInt(0), step_time |-> 0]

NoLoop == [angle |-> 0, stop |-> 0, step |-> 0]

(***************************************************************************)
(* Events                                                                  *)
(***************************************************************************)
PrintEv(t, vals) == [ev |-> "print", text |-> t, val |-> vals]

SetAngleEv(a) == [ev |-> "angle", text |-> "servo_a.angle", val |-> <<a>>]

SleepEv(t) == [ev |-> "sleep", text |-> "sleep", val |-> <<t>>]

ErrorText(field) ==
    CASE field = "start_angle" -> "ERROR: The start_angle value is invalid."
      [] field = "stop_angle" -> "ERROR: The stop_angle value is invalid."
      [] field = "step_angle" -> "ERROR: The step_angle value is invalid."
      [] OTHER -> "ERROR: The step_time value is invalid."

ErrorValue(field, a) ==
    CASE field = "start_angle" -> a.start_angle.v
      [] field = "stop_angle" -> a.stop_angle.v
      [] field = "step_angle" -> a.step_angle.v
      [] OTHER -> a.step_time

\* if DEBUG: print(f"Setting angle to {angle} degrees.")
DebugSetting(a) ==
    IF DEBUG THEN <<PrintEv("Setting angle to degrees.", <<a>>)>> ELSE <<>>

\* if DEBUG: print(f"Sweeping angle from ... step time.")
DebugSweeping(a) ==
    IF DEBUG
    THEN <<PrintEv("Sweeping angle.",
                 <<a.start_angle.v, a.stop_angle.v, a.step_angle.v, a.step_time>>)>>
    ELSE <<>>

(***************************************************************************)
(* servo_sweep: error checking of input values                             *)
(***************************************************************************)
\* Mutant: the upper limit of the angle is not checked.
BadAngleNoUpperBound(x) == x.v # int(x) \/ x.v < 0

BadAngle(x) == x.v # int(x) \/ x.v < 0 \/ x.v > Tenths(MaxAngle)

\* Mutant: the step is not compared with the span of the sweep.
BadStepNoSpanCheck(a) ==
    \/ a.step_angle.v # int(a.step_angle)
    \/ a.step_angle.v < Tenths(1)

\* Mutant: the comparison with the span is off by one degree.
BadStepSpanOffByOne(a) ==
    \/ a.step_angle.v # int(a.step_angle)
    \/ a.step_angle.v < Tenths(1)
    \/ a.step_angle.v > abs(a.stop_angle.v - a.start_angle.v) + Tenths(1)

BadStep(a) ==
    \/ a.step_angle.v # int(a.step_angle)
    \/ a.step_angle.v < Tenths(1)
    \/ a.step_angle.v > abs(a.stop_angle.v - a.start_angle.v)

BadTime(a) == a.step_time < 0

\* Mutant: stop_angle is checked before start_angle.
FirstErrorStopFirst(a) ==
    IF BadAngle(a.stop_angle) THEN "stop_angle"
    ELSE IF BadAngle(a.start_angle) THEN "start_angle"
    ELSE IF BadStep(a) THEN "step_angle"
    ELSE IF BadTime(a) THEN "step_time"
    ELSE "none"

\* The field of the first failing check, "none" when all four pass.
FirstError(a) ==
    IF BadAngle(a.start_angle) THEN "start_angle"
    ELSE IF BadAngle(a.stop_angle) THEN "stop_angle"
    ELSE IF BadStep(a) THEN "step_angle"
    ELSE IF BadTime(a) THEN "step_time"
    ELSE "none"

\* Mutant: the error messages are printed only when DEBUG is set.
ErrorMessagesGated(a) ==
    IF FirstError(a) = "none" \/ ~DEBUG THEN <<>>
    ELSE <<PrintEv(ErrorText(FirstError(a)), <<ErrorValue(FirstError(a), a)>>)>>

\* The messages printed by the error checking: one per early return.
ErrorMessages(a) ==
    IF FirstError(a) = "none" THEN <<>>
    ELSE <<PrintEv(ErrorText(FirstError(a)), <<ErrorValue(FirstError(a), a)>>)>>

\* range() raises TypeError when one of its arguments is a float.
RangeRaises(a) ==
    a.start_angle.float \/ a.stop_angle.float \/ a.step_angle.float

\* Mutant: the stop angle is excluded (no +1 / -1 on the stop of the range).
SweepRangeExclusive(a) ==
    IF a.start_angle.v < a.stop_angle.v
    THEN [angle |-> Degrees(a.start_angle.v),
          stop |-> Degrees(a.stop_angle.v),
          step |-> Degrees(a.step_angle.v)]
    ELSE [angle |-> Degrees(a.start_angle.v),
          stop |-> Degrees(a.stop_angle.v),
          step |-> -Degrees(a.step_angle.v)]

\* Mutant: the range runs one whole step past the stop angle.
SweepRangeOvershoot(a) ==
    IF a.start_angle.v < a.stop_angle.v
    THEN [angle |-> Degrees(a.start_angle.v),
          stop |-> Degrees(a.stop_angle.v) + Degrees(a.step_angle.v),
          step |-> Degrees(a.step_angle.v)]
    ELSE [angle |-> Degrees(a.start_angle.v),
          stop |-> Degrees(a.stop_angle.v) - Degrees(a.step_angle.v),
          step |-> -Degrees(a.step_angle.v)]

\* Mutant: the step of the decreasing range is not negated.
SweepRangeNoNegate(a) ==
    IF a.start_angle.v < a.stop_angle.v
    THEN [angle |-> Degrees(a.start_angle.v),
          stop |-> Degrees(a.stop_angle.v) + 1,
          step |-> Degrees(a.step_angle.v)]
    ELSE [angle |-> Degrees(a.start_angle.v),
          stop |-> Degrees(a.stop_angle.v) - 1,
          step |-> Degrees(a.step_angle.v)]

\* The range object of the for loop: first value, exclusive stop, step.
SweepRange(a) ==
    IF a.start_angle.v < a.stop_angle.v
    THEN [angle |-> Degrees(a.start_angle.v),
          stop |-> Degrees(a.stop_angle.v) + 1,
          step |-> Degrees(a.step_angle.v)]
    ELSE [angle |-> Degrees(a.start_angle.v),
          stop |-> Degrees(a.stop_angle.v) - 1,
          step |-> -Degrees(a.step_angle.v)]

\* Whether the range iterator has a value left.
HasNext(r) == IF r.step > 0 THEN r.angle < r.stop ELSE r.angle > r.stop

(***************************************************************************)
(* Initial state                                                           *)
(***************************************************************************)
Init ==
    /\ DEBUG \in BOOLEAN
    /\ servo_angle = <<>>
    /\ pc \in {MainStart, Idle}
    /\ stack = <<>>
    /\ args = NoArgs
    /\ loop = NoLoop
    /\ log = <<>>
    /\ loops = 0

MainInit == Init /\ pc = MainStart

(***************************************************************************)
(* servo_sweep                                                             *)
(***************************************************************************)
\* The call itself: parameter binding, the four checks, the description
\* line and the construction of the range.
servo_sweep(a) ==
    /\ args' = a
    /\ IF FirstError(a) # "none"
       THEN /\ log' = ErrorMessages(a)
            /\ loop' = NoLoop
            /\ pc' = At("servo_sweep", "return", 0)
       ELSE IF RangeRaises(a)
       THEN /\ log' = DebugSweeping(a)
            /\ loop' = NoLoop
            /\ pc' = At("servo_sweep", "raise", 0)
       ELSE /\ log' = DebugSweeping(a)
            /\ loop' = SweepRange(a)
            /\ pc' = At("servo_sweep", "for", 0)
    /\ UNCHANGED <<DEBUG, servo_angle, loops>>

\* for angle in range(...): the loop test.
SweepFor ==
    /\ pc = At("servo_sweep", "for", 0)
    /\ pc' = IF HasNext(loop) THEN At("servo_sweep", "set", 0)
             ELSE At("servo_sweep", "return", 0)
    /\ UNCHANGED <<DEBUG, servo_angle, stack, args, loop, log, loops>>

\* if DEBUG: print(...); servo_a.angle = angle
SweepSetAngle ==
    /\ pc = At("servo_sweep", "set", 0)
    /\ log' = log \o DebugSetting(loop.angle) \o <<SetAngleEv(loop.angle)>>
    /\ servo_angle' = <<loop.angle>>
    /\ pc' = At("servo_sweep", "sleep", 0)
    /\ UNCHANGED <<DEBUG, stack, args, loop, loops>>

\* Mutant: the sleep is taken between two commands only, not after the last.
SweepSleepBetweenOnly ==
    /\ pc = At("servo_sweep", "sleep", 0)
    /\ loop' = [loop EXCEPT !.angle = loop.angle + loop.step]
    /\ log' = IF HasNext(loop') THEN Append(log, SleepEv(args.step_time)) ELSE log
    /\ pc' = At("servo_sweep", "for", 0)
    /\ UNCHANGED <<DEBUG, servo_angle, stack, args, loops>>

\* sleep(step_time), then the iterator advances.
SweepSleep ==
    /\ pc = At("servo_sweep", "sleep", 0)
    /\ log' = Append(log, SleepEv(args.step_time))
    /\ loop' = [loop EXCEPT !.angle = loop.angle + loop.step]
    /\ pc' = At("servo_sweep", "for", 0)
    /\ UNCHANGED <<DEBUG, servo_angle, stack, args, loops>>

SweepReturn ==
    /\ pc = At("servo_sweep", "return", 0)
    /\ pc' = Head(stack)
    /\ stack' = Tail(stack)
    /\ args' = NoArgs
    /\ loop' = NoLoop
    /\ log' = <<>>
    /\ UNCHANGED <<DEBUG, servo_angle, loops>>

\* The uncaught TypeError unwinds to the importing program's prompt.
SweepRaise ==
    /\ pc = At("servo_sweep", "raise", 0)
    /\ stack[Len(stack)] = Idle
    /\ pc' = Idle
    /\ stack' = <<>>
    /\ args' = NoArgs
    /\ loop' = NoLoop
    /\ log' = <<>>
    /\ UNCHANGED <<DEBUG, servo_angle, loops>>

(***************************************************************************)
(* basic_operations                                                        *)
(***************************************************************************)
BasicSetAngle ==
    /\ pc.fn = "basic_operations"
    /\ pc.label = "set"
    /\ log' = log \o DebugSetting(BasicAngles[pc.i])
                  \o <<SetAngleEv(BasicAngles[pc.i])>>
    /\ servo_angle' = <<BasicAngles[pc.i]>>
    /\ pc' = At("basic_operations", "sleep", pc.i)
    /\ UNCHANGED <<DEBUG, stack, args, loop, loops>>

BasicSleep ==
    /\ pc.fn = "basic_operations"
    /\ pc.label = "sleep"
    /\ log' = Append(log, SleepEv(BasicSleepTime))
    /\ pc' = IF pc.i < Len(BasicAngles)
             THEN At("basic_operations", "set", pc.i + 1)
             ELSE At("basic_operations", "return", 0)
    /\ UNCHANGED <<DEBUG, servo_angle, stack, args, loop, loops>>

BasicReturn ==
    /\ pc = At("basic_operations", "return", 0)
    /\ pc' = Head(stack)
    /\ stack' = Tail(stack)
    /\ log' = <<>>
    /\ UNCHANGED <<DEBUG, servo_angle, args, loop, loops>>

(***************************************************************************)
(* sweep_operations                                                        *)
(***************************************************************************)
OpsCall ==
    /\ pc.fn = "sweep_operations"
    /\ pc.label = "call"
    /\ stack' = <<At("sweep_operations", "sleep", pc.i)>> \o stack
    /\ servo_sweep(SweepCalls[pc.i])

OpsSleep ==
    /\ pc.fn = "sweep_operations"
    /\ pc.label = "sleep"
    /\ log' = Append(log, SleepEv(OpsSleepTime))
    /\ pc' = IF pc.i < Len(SweepCalls)
             THEN At("sweep_operations", "call", pc.i + 1)
             ELSE At("sweep_operations", "return", 0)
    /\ UNCHANGED <<DEBUG, servo_angle, stack, args, loop, loops>>

OpsReturn ==
    /\ pc = At("sweep_operations", "return", 0)
    /\ pc' = Head(stack)
    /\ stack' = Tail(stack)
    /\ log' = <<>>
    /\ UNCHANGED <<DEBUG, servo_angle, args, loop, loops>>

(***************************************************************************)
(* main                                                                    *)
(***************************************************************************)
\* while True: one call of the loop body, then on to the next (cyclically).
MainCall ==
    /\ pc.fn = "main"
    /\ pc' = Entry(MainCalls[pc.i])
    /\ stack' = <<At("main", "call", (pc.i % Len(MainCalls)) + 1)>>
    /\ log' = <<>>
    /\ loops' = IF pc.i = 1 /\ loops < MaxLoops THEN loops + 1 ELSE loops
    /\ UNCHANGED <<DEBUG, servo_angle, args, loop>>

(***************************************************************************)
(* Calls made by a program that imported the module                        *)
(***************************************************************************)
ImportCallSweep ==
    /\ pc = Idle
    /\ stack' = <<Idle>>
    /\ \E a \in AngleInputs, b \in AngleInputs, s \in StepInputs, t \in TimeInputs :
          servo_sweep([start_angle |-> a, stop_angle |-> b,
                       step_angle |-> s, step_time |-> t])

ImportCallBasic ==
    /\ pc = Idle
    /\ stack' = <<Idle>>
    /\ pc' = Entry("basic_operations")
    /\ log' = <<>>
    /\ UNCHANGED <<DEBUG, servo_angle, args, loop, loops>>

ImportCallOps ==
    /\ pc = Idle
    /\ stack' = <<Idle>>
    /\ pc' = Entry("sweep_operations")
    /\ log' = <<>>
    /\ UNCHANGED <<DEBUG, servo_angle, args, loop, loops>>

(***************************************************************************)
(* Specifications                                                          *)
(***************************************************************************)
Next ==
    \/ MainCall
    \/ BasicSetAngle
    \/ BasicSleep
    \/ BasicReturn
    \/ ImportCallSweep
    \/ ImportCallBasic
    \/ ImportCallOps
    \/ OpsCall
    \/ OpsSleep
    \/ OpsReturn
    \/ SweepFor
    \/ SweepSetAngle
    \/ SweepSleep
    \/ SweepReturn
    \/ SweepRaise

Spec == Init /\ [][Next]_vars

\* The program as started by "python servo_basic.py": main only.
MainNext ==
    \/ MainCall
    \/ BasicSetAngle
    \/ BasicSleep
    \/ BasicReturn

MainSpec == MainInit /\ [][MainNext]_vars /\ WF_vars(MainNext)

\* Every program step is eventually taken: the single thread never stalls
\* inside servo_sweep (sleep returns, print returns).
SweepStep == SweepFor \/ SweepSetAngle \/ SweepSleep

FairSpec == Spec /\ WF_vars(SweepStep)

(***************************************************************************)
(* Vocabulary of the properties                                            *)
(***************************************************************************)
IsAngleEv(e) == e.ev = "angle"

IsSleepEv(e) == e.ev = "sleep"

IsPrintEv(e) == e.ev = "print"

IsActuationEv(e) == e.ev # "print"

\* The angles written to servo_a.angle, in order.
Commanded(l) ==
    LET s == SelectSeq(l, IsAngleEv) IN [k \in 1..Len(s) |-> s[k].val[1]]

\* The durations slept, in order.
Slept(l) ==
    LET s == SelectSeq(l, IsSleepEv) IN [k \in 1..Len(s) |-> s[k].val[1]]

Printed(l) == SelectSeq(l, IsPrintEv)

\* Writes and sleeps, in order, without the prints.
Actuation(l) == SelectSeq(l, IsActuationEv)

InSweep == pc.fn = "servo_sweep"

AtSweepReturn == pc = At("servo_sweep", "return", 0)

\* The constraints of the four parameters, on their values.
AngleInDomain(x) == x.v % 10 = 0 /\ x.v >= 0 /\ x.v <= 1800

StepInDomain(a) ==
    /\ a.step_angle.v % 10 = 0
    /\ a.step_angle.v >= 10
    /\ a.step_angle.v <= abs(a.stop_angle.v - a.start_angle.v)

Violates(a) ==
    \/ ~AngleInDomain(a.start_angle)
    \/ ~AngleInDomain(a.stop_angle)
    \/ ~StepInDomain(a)
    \/ a.step_time < 0

\* A valid request: Python ints (the documented parameter types) in domain.
ValidRequest(a) ==
    /\ ~Violates(a)
    /\ ~a.start_angle.float /\ ~a.stop_angle.float /\ ~a.step_angle.float

\* The first parameter, in the order start, stop, step, time, out of domain.
FirstOffender(a) ==
    IF ~AngleInDomain(a.start_angle) THEN "start_angle"
    ELSE IF ~AngleInDomain(a.stop_angle) THEN "stop_angle"
    ELSE IF ~StepInDomain(a) THEN "step_angle"
    ELSE "step_time"

\* The parameter an error message names.
NamedField(text) ==
    CASE text = "ERROR: The start_angle value is invalid." -> "start_angle"
      [] text = "ERROR: The stop_angle value is invalid." -> "stop_angle"
      [] text = "ERROR: The step_angle value is invalid." -> "step_angle"
      [] text = "ERROR: The step_time value is invalid." -> "step_time"
      [] OTHER -> "no field"

OffenderValue(a) ==
    CASE FirstOffender(a) = "start_angle" -> a.start_angle.v
      [] FirstOffender(a) = "stop_angle" -> a.stop_angle.v
      [] FirstOffender(a) = "step_angle" -> a.step_angle.v
      [] OTHER -> a.step_time

Start(a) == a.start_angle.v \div 10

Stop(a) == a.stop_angle.v \div 10

Step(a) == a.step_angle.v \div 10

Dir(a) == IF Start(a) < Stop(a) THEN 1 ELSE -1

TypeOK ==
    /\ DEBUG \in BOOLEAN
    /\ Len(servo_angle) <= 1
    /\ Len(stack) <= 2
    /\ loops \in 0..MaxLoops

(***************************************************************************)
(* C1                                                                      *)
(***************************************************************************)
\* C1: a call of servo_sweep with an argument out of its domain returns at
\* once, with no write of servo_a.angle and no sleep, and the actuator is
\* after the call what it was before it.
C1_FailFastNoPartialEffects ==
    /\ [](InSweep /\ Violates(args)
            => AtSweepReturn /\ Actuation(log) = <<>>)
    /\ [][((InSweep /\ Violates(args)) \/ (InSweep' /\ Violates(args')))
            => servo_angle' = servo_angle]_vars

C1_Witness ==
    /\ AtSweepReturn
    /\ args.start_angle = PyInt(0) /\ args.stop_angle = PyInt(10)
    /\ args.step_angle = PyInt(20)
    /\ servo_angle = <<180>>

(***************************************************************************)
(* C2                                                                      *)
(***************************************************************************)
\* C2: a rejected call emits exactly one message; it names the first
\* parameter out of domain in the order start_angle, stop_angle, step_angle,
\* step_time, and carries that parameter's value.
C2_FirstFailingCheckOnly ==
    InSweep /\ Violates(args)
        => /\ Len(log) = 1
           /\ log[1].ev = "print"
           /\ NamedField(log[1].text) = FirstOffender(args)
           /\ log[1].val = <<OffenderValue(args)>>

C2_Witness ==
    /\ AtSweepReturn
    /\ args.start_angle = PyInt(181)
    /\ args.step_time = -100
    /\ NamedField(log[1].text) = "start_angle"

(***************************************************************************)
(* C3                                                                      *)
(***************************************************************************)
\* servo_sweep(a, a, 1, 0) with a an int in [0,180].
SameAngleCall(a) ==
    /\ ~a.start_angle.float
    /\ AngleInDomain(a.start_angle)
    /\ a.stop_angle = a.start_angle
    /\ a.step_angle = PyInt(1)
    /\ a.step_time = 0

\* C3 as stated: servo_sweep(a, a, 1, 0) is accepted and commands exactly
\* the one angle a.
C3_Original ==
    AtSweepReturn /\ SameAngleCall(args)
        => Commanded(log) = <<Start(args)>>

\* C3 amended: servo_sweep(a, a, 1, 0) is rejected by the step_angle check
\* (1 > |a - a|): it emits the step_angle error and commands no angle.
C3_SameAngleRejected ==
    InSweep /\ SameAngleCall(args)
        => /\ AtSweepReturn
           /\ Commanded(log) = <<>>
           /\ Len(log) = 1
           /\ NamedField(log[1].text) = "step_angle"

C3_Witness ==
    /\ AtSweepReturn
    /\ SameAngleCall(args)
    /\ args.start_angle = PyInt(45)

(***************************************************************************)
(* C4                                                                      *)
(***************************************************************************)
Sweep180To0By45(a) ==
    /\ a.start_angle = PyInt(180) /\ a.stop_angle = PyInt(0)
    /\ a.step_angle = PyInt(45) /\ a.step_time = 1000

\* C4 as stated: servo_sweep(180, 0, 45, 1) commands [180, 135, 90, 45] and
\* never commands 0.
C4_Original ==
    AtSweepReturn /\ Sweep180To0By45(args)
        => Commanded(log) = <<180, 135, 90, 45>>

\* C4 amended: servo_sweep(180, 0, 45, 1) commands [180, 135, 90, 45, 0];
\* the last commanded angle is the stop angle 0.
C4_StopAngleReached ==
    AtSweepReturn /\ Sweep180To0By45(args)
        => Commanded(log) = <<180, 135, 90, 45, 0>>

\* The fourth call of sweep_operations has returned.
C4_Witness ==
    /\ AtSweepReturn
    /\ Sweep180To0By45(args)
    /\ stack[1] = At("sweep_operations", "sleep", 4)

(***************************************************************************)
(* C5                                                                      *)
(***************************************************************************)
\* C5: on a valid request with start_angle # stop_angle the angles written
\* start at start_angle, move by exactly step_angle toward stop_angle, and
\* all lie between start_angle and stop_angle inclusive.
C5_DirectionMonotonic ==
    InSweep /\ ValidRequest(args) /\ Start(args) # Stop(args)
        => LET c == Commanded(log) IN
           /\ AtSweepReturn => Len(c) >= 1
           /\ Len(c) >= 1 => c[1] = Start(args)
           /\ \A k \in 1..(Len(c) - 1) : c[k + 1] - c[k] = Dir(args) * Step(args)
           /\ \A k \in 1..Len(c) :
                 IF Start(args) < Stop(args)
                 THEN Start(args) <= c[k] /\ c[k] <= Stop(args)
                 ELSE Stop(args) <= c[k] /\ c[k] <= Start(args)

\* A decreasing sweep whose step does not divide the span has returned.
C5_Witness ==
    /\ AtSweepReturn
    /\ args.start_angle = PyInt(135) /\ args.stop_angle = PyInt(10)
    /\ args.step_angle = PyInt(20)
    /\ Len(Commanded(log)) = 7

(***************************************************************************)
(* C6                                                                      *)
(***************************************************************************)
\* C6: on a valid request the angles written are start + d*k*step for
\* k = 0 .. floor(|stop - start| / step); the last one is stop_angle exactly
\* when step_angle divides |stop - start|; servo_sweep(0, 10, 3) commands
\* [0, 3, 6, 9].
C6_ArithmeticProgression ==
    AtSweepReturn /\ ValidRequest(args)
        => LET c == Commanded(log)
               span == abs(Stop(args) - Start(args))
           IN
           /\ c = [k \in 1..(span \div Step(args) + 1)
                      |-> Start(args) + Dir(args) * (k - 1) * Step(args)]
           /\ (c[Len(c)] = Stop(args)) <=> (span % Step(args) = 0)
           /\ (/\ args.start_angle = PyInt(0) /\ args.stop_angle = PyInt(10)
               /\ args.step_angle = PyInt(3))
                 => c = <<0, 3, 6, 9>>

C6_Witness ==
    /\ AtSweepReturn
    /\ args.start_angle = PyInt(0) /\ args.stop_angle = PyInt(10)
    /\ args.step_angle = PyInt(3)
    /\ Commanded(log) = <<0, 3, 6, 9>>

(***************************************************************************)
(* C7                                                                      *)
(***************************************************************************)
Sweep45To135By15(a) ==
    /\ a.start_angle = PyInt(45) /\ a.stop_angle = PyInt(135)
    /\ a.step_angle = PyInt(15) /\ a.step_time = 1000

\* C7: on a valid sweep writes and sleeps alternate, write first, every
\* sleep lasting step_time; at the return there are as many sleeps as
\* writes; servo_sweep(45, 135, 15, 1) reaches its return having commanded
\* [45, 60, 75, 90, 105, 120, 135] with seven sleeps of 1 s.
C7_CommandThenDelay ==
    /\ [](InSweep /\ ValidRequest(args)
            => LET act == Actuation(log) IN
               /\ \A k \in 1..Len(act) :
                     IF k % 2 = 1 THEN act[k].ev = "angle"
                     ELSE act[k].ev = "sleep" /\ act[k].val = <<args.step_time>>
               /\ AtSweepReturn
                     => /\ Len(act) % 2 = 0
                        /\ Len(Slept(log)) = Len(Commanded(log))
               /\ AtSweepReturn /\ Sweep45To135By15(args)
                     => /\ Commanded(log) = <<45, 60, 75, 90, 105, 120, 135>>
                        /\ Slept(log) = <<1000, 1000, 1000, 1000, 1000, 1000, 1000>>)
    /\ (InSweep /\ Sweep45To135By15(args)) ~> (AtSweepReturn /\ Sweep45To135By15(args))

\* The third call of sweep_operations has returned.
C7_Witness ==
    /\ AtSweepReturn
    /\ Sweep45To135By15(args)
    /\ stack[1] = At("sweep_operations", "sleep", 3)
    /\ Len(Slept(log)) = 7

(***************************************************************************)
(* C8                                                                      *)
(***************************************************************************)
DemoActuation ==
    << SetAngleEv(90), SleepEv(5000), SetAngleEv(0), SleepEv(5000),
       SetAngleEv(90), SleepEv(5000), SetAngleEv(180), SleepEv(5000) >>

JustCommanded(a) ==
    pc.fn = "basic_operations" /\ pc.label = "sleep" /\ servo_angle = <<a>>

\* C8: started by main, the program runs basic_operations over and over
\* and nothing else: every run commands 90, 0, 90, 180, each command
\* followed by one sleep of 5 s; the runs never stop, each of 0, 90 and 180
\* is commanded infinitely often, and neither sweep_operations nor
\* servo_sweep is ever entered.
C8_DemoForever ==
    /\ [](pc.fn \in {"main", "basic_operations"})
    /\ [](pc.fn = "basic_operations"
            => /\ Len(Actuation(log)) <= Len(DemoActuation)
               /\ Actuation(log) = SubSeq(DemoActuation, 1, Len(Actuation(log))))
    /\ [](pc = At("basic_operations", "return", 0) => Actuation(log) = DemoActuation)
    /\ []<>(pc = At("basic_operations", "return", 0))
    /\ []<>(pc = MainStart)
    /\ []<>JustCommanded(0)
    /\ []<>JustCommanded(90)
    /\ []<>JustCommanded(180)

\* The third run of basic_operations is complete.
C8_Witness ==
    /\ pc = At("basic_operations", "return", 0)
    /\ stack = <<MainStart>>
    /\ loops = 3
    /\ Actuation(log) = DemoActuation

(***************************************************************************)
(* C9                                                                      *)
(***************************************************************************)
\* What an accepted call prints when DEBUG is set: the description, then one
\* "Setting angle" line per commanded angle.
TracingPrinted ==
    LET p == Printed(log)
        c == Commanded(log)
    IN /\ Len(p) = 1 + Len(c)
       /\ p[1].text = "Sweeping angle."
       /\ \A k \in 1..Len(c) :
             p[k + 1].text = "Setting angle to degrees." /\ p[k + 1].val = <<c[k]>>

\* C9 as stated: with DEBUG False no call of servo_sweep emits a message;
\* with DEBUG True a rejected call emits its error message and an accepted
\* call one description line plus one line per commanded angle.
C9_Original ==
    InSweep
        => IF ~DEBUG THEN Printed(log) = <<>>
           ELSE IF Violates(args)
                THEN Len(Printed(log)) = 1 /\ NamedField(Printed(log)[1].text) # "no field"
                ELSE TracingPrinted

\* C9 amended: only the informational tracing is gated by DEBUG.  A rejected
\* call emits its one error message whether DEBUG is set or not; an accepted
\* call emits nothing when DEBUG is False and, when DEBUG is True, one
\* description line plus one line per commanded angle.
C9_OnlyTracingGated ==
    InSweep
        => IF Violates(args)
           THEN Len(Printed(log)) = 1 /\ NamedField(Printed(log)[1].text) # "no field"
           ELSE IF ~DEBUG THEN Printed(log) = <<>>
           ELSE TracingPrinted

C9_Witness ==
    /\ AtSweepReturn
    /\ ~DEBUG
    /\ Violates(args)
    /\ Len(Printed(log)) = 1

(***************************************************************************)
(* C10                                                                     *)
(***************************************************************************)
\* C10: whatever is called, with whatever arguments, every value written to
\* servo_a.angle is an integer in [0,180], and every call of servo_sweep
\* ends after at most 181 writes.
C10_AnglesInRange ==
    /\ [](servo_angle = <<>> \/ servo_angle[1] \in 0..180)
    /\ [](\A k \in 1..Len(Commanded(log)) : Commanded(log)[k] \in 0..180)
    /\ [](InSweep => Len(Commanded(log)) <= 181)
    /\ InSweep ~> (pc.fn = "servo_sweep" /\ pc.label \in {"return", "raise"})

\* The longest sweep has returned.
C10_Witness ==
    /\ AtSweepReturn
    /\ stack = <<Idle>>
    /\ Len(Commanded(log)) = 181
    /\ servo_angle = <<0>>

====
